---- MODULE Spec2Model ----
(***************************************************************************)
(* A model of two parts of llama_index:                                    *)
(*   - query_engine/retriever_query_engine.py : RetrieverQueryEngine       *)
(*     (retrieve / aretrieve / with_retriever / _query / _aquery)          *)
(*   - node_parser/node_utils.py : get_text_splits_from_document and       *)
(*     get_nodes_from_document                                             *)
(* Injected collaborators (retriever, postprocessors, synthesizer,         *)
(* callback manager, text splitter) are environment: their behaviour is    *)
(* fixed per behaviour of the model by the initial state.                  *)
(***************************************************************************)
EXTENDS Integers, Sequences, FiniteSets, TLC

(* ------------------------------ bounds --------------------------------- *)
MaxInv == 2          \* query/retrieve invocations per behaviour
MaxPipelines == 2    \* engines that exist (the first plus derived ones)
MaxChain == 2        \* longest postprocessor chain

(* --------------------------- value universes --------------------------- *)
Retrievers == {"r1", "r2"}
Queries == {"q1"}
Postprocessors == {"cutoff", "rerank", "failing"}
Faults == {"none", "retriever", "synthesizer",
           "start_QUERY", "start_RETRIEVE", "end_RETRIEVE", "end_QUERY"}
NoId == 0            \* a local that holds no event id yet
NoStr == ""
NoPipe == 0

Invs == 1..MaxInv

\* Optional[...] values: Nothing is Python's None, Some(v) a value
Nothing == <<>>
Some(v) == <<v>>

RECURSIVE SeqsUpTo(_, _)
SeqsUpTo(S, n) ==
    IF n = 0 THEN {<<>>}
    ELSE LET shorter == SeqsUpTo(S, n - 1)
         IN  shorter \cup {Append(s, e) : s \in {t \in shorter : Len(t) = n - 1}, e \in S}

(* ------------------------- injected collaborators ---------------------- *)
\* BaseRetriever.retrieve / aretrieve: three scored nodes that identify the
\* retriever and the query that produced them.
RetrieverNodes(r, q) ==
    << [id |-> <<r, q, 1>>, score |-> 2],
       [id |-> <<r, q, 2>>, score |-> 0],
       [id |-> <<r, q, 3>>, score |-> 1] >>

\* BaseNodePostprocessor.postprocess_nodes for the two well-behaved samples:
\* a similarity cutoff (drops score < 1) and a re-ranker (reverses the order
\* and re-scores by the new position).
RECURSIVE Cutoff(_)
Cutoff(nodes) ==
    IF nodes = <<>> THEN <<>>
    ELSE IF Head(nodes).score >= 1 THEN <<Head(nodes)>> \o Cutoff(Tail(nodes))
         ELSE Cutoff(Tail(nodes))

Rerank(nodes) ==
    [k \in 1..Len(nodes) |->
        [id |-> nodes[Len(nodes) + 1 - k].id, score |-> Len(nodes) - k]]

PostprocessNodes(p, nodes, q) ==
    IF p = "cutoff" THEN Cutoff(nodes) ELSE Rerank(nodes)

\* BaseSynthesizer.synthesize / asynthesize: the Response records which
\* synthesizer answered which query from which nodes.
NoResponse == [synth |-> "none", query |-> NoStr, nodes |-> <<>>]
Synthesize(s, q, nodes) == [synth |-> s, query |-> q, nodes |-> nodes]

(* ------------------------------- state --------------------------------- *)
VARIABLES
    pipelines,     \* sequence of engines: [retriever, synth, chain, cm]
    frame,         \* frame[i]: locals and position of invocation i
    trace,         \* trace[i]: what invocation i did to its collaborators
    nextEventId,   \* the callback manager's next fresh event id
    fault          \* which collaborator fails in this behaviour

qvars == <<pipelines, frame, trace, nextEventId, fault>>

VARIABLES
    call,          \* arguments of the node-parser call of this behaviour
    docMetadata,   \* current content of the document's metadata dict
    out            \* position and result of the node-parser call

nvars == <<call, docMetadata, out>>
vars == <<qvars, nvars>>

(* =========================== node_utils.py ============================= *)
MaxChunks == 3       \* longest splitter output

\* dict values: functions from a finite set of keys
EmptyDict == <<>>
Keys(d) == DOMAIN d
\* d.update(e)
Update(d, e) ==
    [k \in Keys(d) \cup Keys(e) |-> IF k \in Keys(e) THEN e[k] ELSE d[k]]

\* sample inputs of a node-parser call
DocumentTypes == {"Document", "ImageDocument", "IndexNode"}
DocumentMetadatas == {EmptyDict, ("a" :> "doc") @@ ("c" :> "doc")}
Documents ==
    {[id |-> "doc-1", type |-> ty, metadata |-> md] :
        ty \in DocumentTypes, md \in DocumentMetadatas}
Chunk(type, text, metadata, num_char_overlap) ==
    [type |-> type, text |-> text, metadata |-> metadata,
     num_char_overlap |-> num_char_overlap]
\* TextSplits an overlap-aware splitter may return
TokenChunks ==
    { Chunk("TextSplit", <<"x">>, Nothing, Nothing),
      Chunk("TextSplit", <<"y", "y">>, Nothing, Some(0)),
      Chunk("TextSplit", <<"y", "y">>, Nothing, Some(1)),
      Chunk("TextSplit", <<"x">>, Some("a" :> "split"), Nothing),
      Chunk("TextSplit", <<"y", "y">>, Some("b" :> "split"), Some(1)),
      Chunk("TextSplit", <<"y", "y">>, Nothing, Some(3)),
      Chunk("TextSplit", <<"x">>, Nothing, Some(4)) }
\* chunks a plain splitter may return: strings, documents, TextSplits
PlainChunks ==
    { Chunk("str", <<"x">>, Nothing, Nothing),
      Chunk("str", <<"y", "y">>, Nothing, Nothing),
      Chunk("Document", <<"x">>, Some(EmptyDict), Nothing),
      Chunk("Document", <<"y", "y">>, Some("a" :> "fragment"), Nothing),
      Chunk("TextSplit", <<"x">>, Nothing, Nothing),
      Chunk("TextSplit", <<"y", "y">>, Some("a" :> "split"), Nothing),
      Chunk("TextSplit", <<"x">>, Some("b" :> "split"), Some(1)) }
SplitterOutputs(text_splitter) ==
    IF text_splitter = "TokenTextSplitter" THEN SeqsUpTo(TokenChunks, MaxChunks)
    ELSE SeqsUpTo(PlainChunks, MaxChunks)
TextSplitters == {"TokenTextSplitter", "TextSplitter"}

\* TextSplit(text_chunk, metadata=None, num_char_overlap=None)
TextSplit(text_chunk, metadata, num_char_overlap) ==
    [text_chunk |-> text_chunk, metadata |-> metadata,
     num_char_overlap |-> num_char_overlap]

\* slip: the merge keeps the split's value on a key collision
NormalizedSplit_SplitWins(text_chunk, document_metadata, include_metadata) ==
    LET own == IF text_chunk.type = "str" \/ text_chunk.metadata = Nothing
               THEN EmptyDict ELSE text_chunk.metadata[1]
        text_split ==
            TextSplit(text_chunk.text,
                      IF text_chunk.type = "str" THEN Nothing ELSE text_chunk.metadata,
                      IF text_chunk.type = "TextSplit" THEN text_chunk.num_char_overlap
                      ELSE Nothing)
    IN  IF include_metadata /\ document_metadata # EmptyDict
        THEN [text_split EXCEPT !.metadata = Some(Update(document_metadata, own))]
        ELSE text_split

\* one chunk of the plain path, made into a TextSplit and merged with the
\* document's metadata (document keys overwrite)
NormalizedSplit(text_chunk, document_metadata, include_metadata) ==
    LET text_split ==
            IF text_chunk.type = "TextSplit"
            THEN TextSplit(text_chunk.text, text_chunk.metadata, text_chunk.num_char_overlap)
            ELSE IF text_chunk.type = "Document"
            THEN TextSplit(text_chunk.text, text_chunk.metadata, Nothing)
            ELSE TextSplit(text_chunk.text, Nothing, Nothing)
    IN  IF include_metadata /\ document_metadata # EmptyDict
        THEN [text_split EXCEPT !.metadata =
                 Some(Update(IF text_split.metadata = Nothing THEN EmptyDict
                             ELSE text_split.metadata[1],
                             document_metadata))]
        ELSE text_split

\* get_text_splits_from_document: the overlap-aware splitter's TextSplits are
\* returned as they are; the plain splitter's chunks are normalized
GetTextSplitsFromDocument(document_metadata, text_splitter, chunks, include_metadata) ==
    IF text_splitter = "TokenTextSplitter"
    THEN [k \in 1..Len(chunks) |->
            TextSplit(chunks[k].text, chunks[k].metadata, chunks[k].num_char_overlap)]
    ELSE [k \in 1..Len(chunks) |->
            NormalizedSplit(chunks[k], document_metadata, include_metadata)]

\* BaseNode.as_related_node_info
AsRelatedNodeInfo(node) == [node_id |-> node.id, node_type |-> node.type]

\* slip: the assignment replaces the whole mapping
SetItem_Replaces(relationships, kind, info) == {<<kind, info>>}

\* relationships[kind] = info on a dict kept as a set of <<kind, info>> items
SetItem(relationships, kind, info) ==
    {item \in relationships : item[1] # kind} \cup {<<kind, info>>}

\* one iteration of the node loop on b = [nodes, index_counter, metadata,
\* status, err]; b.metadata is the content of document.metadata
BuildOne(b, text_split, document, include_metadata) ==
    LET text_chunk == text_split.text_chunk
        start_char_idx ==
            IF text_split.num_char_overlap # Nothing
            THEN Some(b.index_counter - text_split.num_char_overlap[1])
            ELSE Nothing
        end_char_idx ==
            IF text_split.num_char_overlap # Nothing
            THEN Some(b.index_counter - text_split.num_char_overlap[1] + Len(text_chunk))
            ELSE Nothing
        \* node_metadata = document.metadata binds the document's own dict,
        \* so the update below writes into the document
        document_metadata ==
            IF include_metadata /\ text_split.metadata # Nothing
            THEN Update(b.metadata, text_split.metadata[1])
            ELSE b.metadata
        node_metadata == IF include_metadata THEN document_metadata ELSE EmptyDict
        node == [id |-> <<"node", Len(b.nodes) + 1>>,
                 type |-> IF document.type = "ImageDocument" THEN "ImageNode" ELSE "TextNode",
                 text |-> text_chunk,
                 start_char_idx |-> start_char_idx,
                 end_char_idx |-> end_char_idx,
                 metadata |-> node_metadata,
                 metadata_is_documents |-> include_metadata,
                 relationships |-> {<<"SOURCE", AsRelatedNodeInfo(document)>>}]
        b1 == [b EXCEPT !.index_counter = @ + Len(text_chunk) + 1,
                        !.metadata = document_metadata]
    IN  IF document.type \in {"ImageDocument", "Document"}
        THEN [b1 EXCEPT !.nodes = Append(@, node)]
        ELSE [b1 EXCEPT !.status = "raised", !.err = "ValueError"]

\* slip: the loop stops one split early
RECURSIVE BuildLoop_StopsEarly(_, _, _, _, _)
BuildLoop_StopsEarly(b, text_splits, i, document, include_metadata) ==
    IF b.status = "raised" \/ i >= Len(text_splits) THEN b
    ELSE BuildLoop_StopsEarly(BuildOne(b, text_splits[i], document, include_metadata),
                              text_splits, i + 1, document, include_metadata)

\* slip: the cursor stands still on a split without an overlap count
RECURSIVE BuildLoop_CursorSkipsNoOverlap(_, _, _, _, _)
BuildLoop_CursorSkipsNoOverlap(b, text_splits, i, document, include_metadata) ==
    IF b.status = "raised" \/ i > Len(text_splits) THEN b
    ELSE BuildLoop_CursorSkipsNoOverlap(
             [BuildOne(b, text_splits[i], document, include_metadata)
                 EXCEPT !.index_counter =
                     IF text_splits[i].num_char_overlap = Nothing
                     THEN b.index_counter ELSE @],
             text_splits, i + 1, document, include_metadata)

\* slip: the cursor advances by the chunk's length only
RECURSIVE BuildLoop_NoSeparator(_, _, _, _, _)
BuildLoop_NoSeparator(b, text_splits, i, document, include_metadata) ==
    IF b.status = "raised" \/ i > Len(text_splits) THEN b
    ELSE BuildLoop_NoSeparator(
             [BuildOne(b, text_splits[i], document, include_metadata)
                 EXCEPT !.index_counter = @ - 1],
             text_splits, i + 1, document, include_metadata)

RECURSIVE BuildLoop(_, _, _, _, _)
BuildLoop(b, text_splits, i, document, include_metadata) ==
    IF b.status = "raised" \/ i > Len(text_splits) THEN b
    \* (the set binds the iteration's result, so that it is computed once)
    ELSE CHOOSE r \in {BuildLoop(b1, text_splits, i + 1, document, include_metadata) :
                          b1 \in {BuildOne(b, text_splits[i], document, include_metadata)}} : TRUE

\* slip: the two neighbours are exchanged
LinkOne_Swapped(nodes, i) ==
    LET withPrev == IF i > 1
                    THEN SetItem(nodes[i].relationships, "NEXT",
                                 AsRelatedNodeInfo(nodes[i - 1]))
                    ELSE nodes[i].relationships
    IN  IF i < Len(nodes)
        THEN SetItem(withPrev, "PREVIOUS", AsRelatedNodeInfo(nodes[i + 1]))
        ELSE withPrev

\* the prev/next pass over the finished list
LinkOne(nodes, i) ==
    LET withPrev == IF i > 1
                    THEN SetItem(nodes[i].relationships, "PREVIOUS",
                                 AsRelatedNodeInfo(nodes[i - 1]))
                    ELSE nodes[i].relationships
    IN  IF i < Len(nodes)
        THEN SetItem(withPrev, "NEXT", AsRelatedNodeInfo(nodes[i + 1]))
        ELSE withPrev

\* slip: the pass rebuilds each node and loses its offsets
LinkPass_ResetsOffsets(nodes) ==
    [i \in 1..Len(nodes) |-> [nodes[i] EXCEPT !.relationships = LinkOne(nodes, i),
                                              !.start_char_idx = Nothing,
                                              !.end_char_idx = Nothing]]

LinkPass(nodes) ==
    [i \in 1..Len(nodes) |-> [nodes[i] EXCEPT !.relationships = LinkOne(nodes, i)]]

\* get_nodes_from_document; node_keeps_dict says whether the node constructor
\* keeps the dict it is given (then the node sees later updates of the
\* document's dict) or copies it
GetNodesFromDocument(document, text_splitter, chunks, include_metadata, include_prev_next_rel, node_keeps_dict) ==
    LET text_splits == GetTextSplitsFromDocument(document.metadata, text_splitter,
                                                 chunks, include_metadata)
        b0 == [nodes |-> <<>>, index_counter |-> 0, metadata |-> document.metadata,
               status |-> "running", err |-> NoStr]
        b == BuildLoop(b0, text_splits, 1, document, include_metadata)
        built == [i \in 1..Len(b.nodes) |->
                    IF node_keeps_dict /\ b.nodes[i].metadata_is_documents
                    THEN [b.nodes[i] EXCEPT !.metadata = b.metadata]
                    ELSE b.nodes[i]]
        nodes == IF include_prev_next_rel THEN LinkPass(built) ELSE built
    IN  IF b.status = "raised"
        THEN [status |-> "raised", err |-> b.err, nodes |-> <<>>,
              text_splits |-> text_splits, metadata |-> b.metadata]
        ELSE [status |-> "returned", err |-> NoStr, nodes |-> nodes,
              text_splits |-> text_splits, metadata |-> b.metadata]

(* ----------------------- node-parser call: actions --------------------- *)
NoCall ==
    [document |-> [id |-> NoStr, type |-> NoStr, metadata |-> EmptyDict],
     text_splitter |-> NoStr, chunks |-> <<>>, include_metadata |-> FALSE,
     include_prev_next_rel |-> FALSE, node_keeps_dict |-> FALSE]
IdleOut ==
    [op |-> NoStr, status |-> "idle", err |-> NoStr, nodes |-> <<>>, text_splits |-> <<>>]

NIdle ==
    /\ call = NoCall
    /\ docMetadata = EmptyDict
    /\ out = IdleOut

(* ------------------------ trace entries and payloads ------------------- *)
NoPayload == [keys |-> {}, query_str |-> NoStr, nodes |-> <<>>, response |-> NoResponse]
QueryStrPayload(q) == [NoPayload EXCEPT !.keys = {"QUERY_STR"}, !.query_str = q]
NodesPayload(ns) == [NoPayload EXCEPT !.keys = {"NODES"}, !.nodes = ns]
ResponsePayload(r) == [NoPayload EXCEPT !.keys = {"RESPONSE"}, !.response = r]

Entry(what, kind, payload, id) ==
    [what |-> what, kind |-> kind, payload |-> payload, id |-> id]

(* A machine m = [f, t, n, ret]: the frame of one invocation, its trace,  *)
(* the callback manager's counter and the value the last call returned.    *)
(* Every statement below is skipped once the frame has raised, which is    *)
(* how an uncaught Python exception unwinds the rest of the function.      *)
Running(m) == m.f.status = "running"
Raise(m, e) == [m EXCEPT !.f.status = "raised", !.f.err = e]

(* ---------------- CallbackManager (injected event sink) ---------------- *)
\* on_event_start(kind, payload) -> fresh event id, kept in m.id
OnEventStart(m, kind, payload) ==
    IF ~Running(m) THEN m
    ELSE IF fault = "start_" \o kind THEN Raise(m, "SinkError")
    ELSE [m EXCEPT !.t = Append(@, Entry("start", kind, payload, m.n)),
                   !.id = m.n,
                   !.n = m.n + 1]

\* on_event_end(kind, payload, event_id)
OnEventEnd(m, kind, payload, event_id) ==
    IF ~Running(m) THEN m
    ELSE IF fault = "end_" \o kind THEN Raise(m, "SinkError")
    ELSE [m EXCEPT !.t = Append(@, Entry("end", kind, payload, event_id))]

(* ------------------- calls into retriever / synthesizer ---------------- *)
\* the call is made (and recorded); for the awaited variants the result
\* arrives when the coroutine is resumed
RetrieverCall(m, r) ==
    IF ~Running(m) THEN m
    ELSE [m EXCEPT !.t = Append(@, Entry("retriever", r, QueryStrPayload(m.f.q), NoId))]

RetrieverReturn(m, r) ==
    IF ~Running(m) THEN m
    ELSE IF fault = "retriever" THEN Raise(m, "RetrieverError")
    ELSE [m EXCEPT !.f.nodes = RetrieverNodes(r, m.f.q)]

SynthesizerCall(m, s) ==
    IF ~Running(m) THEN m
    ELSE [m EXCEPT !.t = Append(@, Entry("synthesizer", s,
                        [NodesPayload(m.f.nodes) EXCEPT !.keys = {"QUERY_STR", "NODES"},
                                                        !.query_str = m.f.q], NoId))]

SynthesizerReturn(m, s) ==
    IF ~Running(m) THEN m
    ELSE IF fault = "synthesizer" THEN Raise(m, "SynthesizerError")
    ELSE [m EXCEPT !.f.response = Synthesize(s, m.f.q, m.f.nodes)]

(* ------------------------ RetrieverQueryEngine ------------------------- *)
None == "None"

\* __init__: a missing synthesizer is replaced by the default one, a missing
\* postprocessor list by the empty list; the callback manager is handed to the
\* base class, which keeps it as self.callback_manager.
EngineInit(retriever, response_synthesizer, node_postprocessors, callback_manager) ==
    [retriever |-> retriever,
     synth |-> IF response_synthesizer = None THEN "default_synth"
               ELSE response_synthesizer,
     chain |-> IF node_postprocessors = Nothing \/ node_postprocessors[1] = <<>> THEN <<>>
               ELSE node_postprocessors[1],
     cm |-> callback_manager]

\* slip: the loop walks the chain from its last stage to its first
RECURSIVE ApplyNodePostprocessors_Reversed(_, _, _)
ApplyNodePostprocessors_Reversed(m, chain, k) ==
    IF ~Running(m) \/ k > Len(chain) THEN m
    ELSE LET p == chain[Len(chain) + 1 - k]
             called == [m EXCEPT !.t = Append(@, Entry("postprocessor", p,
                            [NodesPayload(m.f.nodes) EXCEPT !.keys = {"QUERY_STR", "NODES"},
                                                            !.query_str = m.f.q], NoId))]
             after == IF p = "failing" THEN Raise(called, "PostprocessorError")
                      ELSE [called EXCEPT !.f.nodes = PostprocessNodes(p, m.f.nodes, m.f.q)]
         IN  ApplyNodePostprocessors_Reversed(after, chain, k + 1)

\* _apply_node_postprocessors: a loop over self._node_postprocessors, from
\* position k on, each stage replacing `nodes` by its output
RECURSIVE ApplyNodePostprocessors(_, _, _)
ApplyNodePostprocessors(m, chain, k) ==
    IF ~Running(m) \/ k > Len(chain) THEN m
    ELSE LET called == [m EXCEPT !.t = Append(@, Entry("postprocessor", chain[k],
                            [NodesPayload(m.f.nodes) EXCEPT !.keys = {"QUERY_STR", "NODES"},
                                                            !.query_str = m.f.q], NoId))]
             after == IF chain[k] = "failing" THEN Raise(called, "PostprocessorError")
                      ELSE [called EXCEPT !.f.nodes = PostprocessNodes(chain[k], m.f.nodes, m.f.q)]
         \* (the set binds the stage's result, so that it is computed once)
         IN  CHOOSE r \in {ApplyNodePostprocessors(a, chain, k + 1) : a \in {after}} : TRUE

\* slip: retrieve instruments itself with a RETRIEVE event pair
Retrieve_WithEvents(m, self) ==
    LET m0 == OnEventStart(m, "RETRIEVE", NoPayload)
        m1 == RetrieverCall(m0, self.retriever)
        m2 == RetrieverReturn(m1, self.retriever)
        m3 == ApplyNodePostprocessors(m2, self.chain, 1)
    IN  OnEventEnd(m3, "RETRIEVE", NodesPayload(m3.f.nodes), m0.id)

\* retrieve: retriever, then the chain; the return value is left in m.f.nodes
Retrieve(m, self) ==
    LET m1 == RetrieverCall(m, self.retriever)
        m2 == RetrieverReturn(m1, self.retriever)
    IN  ApplyNodePostprocessors(m2, self.chain, 1)

\* aretrieve, up to the await
AretrieveCall(m, self) == RetrieverCall(m, self.retriever)

\* slip: the awaited variant forgets the postprocessors
AretrieveResume_NoPostprocess(m, self) == RetrieverReturn(m, self.retriever)

\* aretrieve, from the await on
AretrieveResume(m, self) ==
    LET m1 == RetrieverReturn(m, self.retriever)
    IN  ApplyNodePostprocessors(m1, self.chain, 1)

\* slip: the derived engine is built without the postprocessors
WithRetrieverResult_DropsChain(self, retriever) ==
    EngineInit(retriever, self.synth, Nothing, self.cm)

\* with_retriever
WithRetrieverResult(self, retriever) ==
    EngineInit(retriever, self.synth, Some(self.chain), self.cm)

\* `return response` / `return nodes`: the value the caller receives
ReturnResponse(m) ==
    IF Running(m) THEN [m EXCEPT !.f.status = "returned", !.f.ret_response = m.f.response]
    ELSE m
ReturnNodes(m) ==
    IF Running(m) THEN [m EXCEPT !.f.status = "returned", !.f.ret_nodes = m.f.nodes]
    ELSE m
\* slip: the coroutine is parked where no completion resumes it
Suspend_Parked(m, at) == IF Running(m) THEN [m EXCEPT !.f.status = "parked"] ELSE m
Suspend(m, at) == IF Running(m) THEN [m EXCEPT !.f.status = at] ELSE m

\* slip: the synthesizer runs before the RETRIEVE end event
Query_SynthesizeFirst(m, self) ==
    LET m1 == OnEventStart(m, "QUERY", QueryStrPayload(m.f.q))
        m2 == IF Running(m1) THEN [m1 EXCEPT !.f.query_id = m1.id] ELSE m1
        m3 == OnEventStart(m2, "RETRIEVE", NoPayload)
        m4 == IF Running(m3) THEN [m3 EXCEPT !.f.retrieve_id = m3.id] ELSE m3
        m5 == Retrieve(m4, self)
        m6 == SynthesizerCall(m5, self.synth)
        m7 == SynthesizerReturn(m6, self.synth)
        m8 == OnEventEnd(m7, "RETRIEVE", NodesPayload(m7.f.nodes), m7.f.retrieve_id)
        m9 == OnEventEnd(m8, "QUERY", ResponsePayload(m8.f.response), m8.f.query_id)
    IN  ReturnResponse(m9)

\* _query
Query(m, self) ==
    LET m1 == OnEventStart(m, "QUERY", QueryStrPayload(m.f.q))
        m2 == IF Running(m1) THEN [m1 EXCEPT !.f.query_id = m1.id] ELSE m1
        m3 == OnEventStart(m2, "RETRIEVE", NoPayload)
        m4 == IF Running(m3) THEN [m3 EXCEPT !.f.retrieve_id = m3.id] ELSE m3
        m5 == Retrieve(m4, self)
        m6 == OnEventEnd(m5, "RETRIEVE", NodesPayload(m5.f.nodes), m5.f.retrieve_id)
        m7 == SynthesizerCall(m6, self.synth)
        m8 == SynthesizerReturn(m7, self.synth)
        m9 == OnEventEnd(m8, "QUERY", ResponsePayload(m8.f.response), m8.f.query_id)
    IN  ReturnResponse(m9)

\* _aquery, up to `await self.aretrieve(...)`
AqueryBegin(m, self) ==
    LET m1 == OnEventStart(m, "QUERY", QueryStrPayload(m.f.q))
        m2 == IF Running(m1) THEN [m1 EXCEPT !.f.query_id = m1.id] ELSE m1
        m3 == OnEventStart(m2, "RETRIEVE", NoPayload)
        m4 == IF Running(m3) THEN [m3 EXCEPT !.f.retrieve_id = m3.id] ELSE m3
        m5 == AretrieveCall(m4, self)
    IN  Suspend(m5, "await_retrieve")

\* slip: the RETRIEVE end event is emitted in a `finally`, failure or not
AqueryRetrieved_EndInFinally(m, self) ==
    LET m1 == AretrieveResume(m, self)
        m2 == OnEventEnd(m1, "RETRIEVE", NodesPayload(m1.f.nodes), m1.f.retrieve_id)
        m3 == SynthesizerCall(m2, self.synth)
    IN  IF Running(m1) THEN Suspend(m3, "await_synthesize")
        ELSE [m1 EXCEPT !.t = Append(@, Entry("end", "RETRIEVE",
                                NodesPayload(m1.f.nodes), m1.f.retrieve_id))]

\* _aquery, from the first await to `await ...asynthesize(...)`
AqueryRetrieved(m, self) ==
    LET m1 == AretrieveResume(m, self)
        m2 == OnEventEnd(m1, "RETRIEVE", NodesPayload(m1.f.nodes), m1.f.retrieve_id)
        m3 == SynthesizerCall(m2, self.synth)
    IN  Suspend(m3, "await_synthesize")

\* slip: the suspendable path returns without the QUERY end event
AquerySynthesized_NoQueryEnd(m, self) ==
    ReturnResponse(SynthesizerReturn(m, self.synth))

\* slip: the QUERY id is kept on the engine, where the latest query to start
\* overwrites it, and the end event closes with whatever is there
AquerySynthesized_SharedToken(m, self) ==
    LET m1 == SynthesizerReturn(m, self.synth)
        m2 == OnEventEnd(m1, "QUERY", ResponsePayload(m1.f.response), m1.n - 2)
    IN  ReturnResponse(m2)

\* _aquery, from the second await to the return
AquerySynthesized(m, self) ==
    LET m1 == SynthesizerReturn(m, self.synth)
        m2 == OnEventEnd(m1, "QUERY", ResponsePayload(m1.f.response), m1.f.query_id)
    IN  ReturnResponse(m2)

(* ------------------------------ actions -------------------------------- *)
IdleFrame ==
    [status |-> "idle", mode |-> NoStr, op |-> NoStr, pipe |-> NoPipe, q |-> NoStr,
     query_id |-> NoId, retrieve_id |-> NoId, nodes |-> <<>>,
     response |-> NoResponse, err |-> NoStr,
     ret_nodes |-> <<>>, ret_response |-> NoResponse]

Chains == SeqsUpTo(Postprocessors, MaxChain)

\* the first engine: built with all defaults, or with a synthesizer and a chain
FirstEngines ==
    {EngineInit("r1", None, Nothing, "cm1")}
        \cup {EngineInit("r1", "s1", Some(c), "cm1") : c \in Chains}

QInit ==
    /\ pipelines \in {<<e>> : e \in FirstEngines}
    /\ frame = [i \in Invs |-> IdleFrame]
    /\ trace = [i \in Invs |-> <<>>]
    /\ nextEventId = 1
    /\ fault \in Faults
    /\ NIdle

\* invocation i is the next to be made, on engine p, for query q
CanStart(i, p) ==
    /\ frame[i].status = "idle"
    /\ \A j \in Invs : j < i => frame[j].status # "idle"
    /\ p \in 1..Len(pipelines)

Machine(i) == [f |-> frame[i], t |-> trace[i], n |-> nextEventId, id |-> NoId]

Entered(i, mode, op, p, q) ==
    [Machine(i) EXCEPT !.f.status = "running", !.f.mode = mode, !.f.op = op,
                       !.f.pipe = p, !.f.q = q]
Resumed(i) == [Machine(i) EXCEPT !.f.status = "running"]

\* the invocation's frame, trace and the sink's counter after the step
\* (v is the value of m, computed once)
Store(i, m) ==
    /\ \E v \in {m} :
          /\ frame' = [frame EXCEPT ![i] = v.f]
          /\ trace' = [trace EXCEPT ![i] = v.t]
          /\ nextEventId' = v.n
    /\ UNCHANGED <<pipelines, fault>>
    /\ UNCHANGED nvars

SyncQuery(i, p, q) ==
    /\ CanStart(i, p)
    /\ Store(i, Query(Entered(i, "sync", "query", p, q), pipelines[p]))

SyncRetrieve(i, p, q) ==
    /\ CanStart(i, p)
    /\ Store(i, ReturnNodes(Retrieve(Entered(i, "sync", "retrieve", p, q), pipelines[p])))

AsyncQueryBegin(i, p, q) ==
    /\ CanStart(i, p)
    /\ Store(i, AqueryBegin(Entered(i, "async", "query", p, q), pipelines[p]))

AsyncQueryRetrieved(i) ==
    /\ frame[i].status = "await_retrieve"
    /\ frame[i].op = "query"
    /\ Store(i, AqueryRetrieved(Resumed(i), pipelines[frame[i].pipe]))

AsyncQuerySynthesized(i) ==
    /\ frame[i].status = "await_synthesize"
    /\ Store(i, AquerySynthesized(Resumed(i), pipelines[frame[i].pipe]))

AsyncRetrieveBegin(i, p, q) ==
    /\ CanStart(i, p)
    /\ Store(i, Suspend(AretrieveCall(Entered(i, "async", "retrieve", p, q), pipelines[p]),
                        "await_retrieve"))

AsyncRetrieveResumed(i) ==
    /\ frame[i].status = "await_retrieve"
    /\ frame[i].op = "retrieve"
    /\ Store(i, ReturnNodes(AretrieveResume(Resumed(i), pipelines[frame[i].pipe])))

WithRetriever(p, r) ==
    /\ p \in 1..Len(pipelines)
    /\ Len(pipelines) < MaxPipelines
    /\ pipelines' = Append(pipelines, WithRetrieverResult(pipelines[p], r))
    /\ UNCHANGED <<frame, trace, nextEventId, fault>>
    /\ UNCHANGED nvars

QNext ==
    \/ \E i \in Invs, p \in 1..MaxPipelines, q \in Queries : SyncQuery(i, p, q)
    \/ \E i \in Invs, p \in 1..MaxPipelines, q \in Queries : SyncRetrieve(i, p, q)
    \/ \E i \in Invs, p \in 1..MaxPipelines, q \in Queries : AsyncQueryBegin(i, p, q)
    \/ \E i \in Invs : AsyncQueryRetrieved(i)
    \/ \E i \in Invs : AsyncQuerySynthesized(i)
    \/ \E i \in Invs, p \in 1..MaxPipelines, q \in Queries : AsyncRetrieveBegin(i, p, q)
    \/ \E i \in Invs : AsyncRetrieveResumed(i)

\* one engine, used by several invocations, any one collaborator failing
QSpec == QInit /\ [][QNext]_vars

\* engines derived from one another and queried, their collaborators working
WInit == QInit /\ fault = "none"

WNext ==
    \/ \E i \in Invs, p \in 1..MaxPipelines, q \in Queries : SyncQuery(i, p, q)
    \/ \E i \in Invs, p \in 1..MaxPipelines, q \in Queries : AsyncQueryBegin(i, p, q)
    \/ \E i \in Invs : AsyncQueryRetrieved(i)
    \/ \E i \in Invs : AsyncQuerySynthesized(i)
    \/ \E p \in 1..MaxPipelines, r \in Retrievers : WithRetriever(p, r)

WSpec == WInit /\ [][WNext]_vars

\* queries on one engine whose collaborators work, with the event loop
\* resuming a suspended _aquery once the call it awaits has completed
TNext ==
    \/ \E i \in Invs, p \in 1..MaxPipelines, q \in Queries : SyncQuery(i, p, q)
    \/ \E i \in Invs, p \in 1..MaxPipelines, q \in Queries : AsyncQueryBegin(i, p, q)
    \/ \E i \in Invs : AsyncQueryRetrieved(i)
    \/ \E i \in Invs : AsyncQuerySynthesized(i)

QFairSpec ==
    /\ WInit /\ [][TNext]_vars
    /\ \A i \in Invs : WF_vars(AsyncQueryRetrieved(i)) /\ WF_vars(AsyncQuerySynthesized(i))

(* --------------------- node-parser call: specification ----------------- *)
QIdle ==
    /\ pipelines = <<>>
    /\ frame = [i \in Invs |-> IdleFrame]
    /\ trace = [i \in Invs |-> <<>>]
    /\ nextEventId = 1
    /\ fault = "none"

NInit ==
    /\ \E d \in Documents, ts \in TextSplitters, im \in BOOLEAN, ipn \in BOOLEAN,
          keeps \in BOOLEAN :
          \E c \in SplitterOutputs(ts) :
             call = [document |-> d, text_splitter |-> ts, chunks |-> c,
                     include_metadata |-> im, include_prev_next_rel |-> ipn,
                     node_keeps_dict |-> keeps]
    /\ docMetadata = call.document.metadata
    /\ out = IdleOut
    /\ QIdle

\* extract: get_text_splits_from_document called on its own
ExtractSplits ==
    /\ out.status = "idle"
    /\ out' = [op |-> "extract", status |-> "returned", err |-> NoStr, nodes |-> <<>>,
               text_splits |-> GetTextSplitsFromDocument(docMetadata, call.text_splitter,
                                                         call.chunks, call.include_metadata)]
    /\ UNCHANGED <<call, docMetadata>>
    /\ UNCHANGED qvars

\* build_nodes: get_nodes_from_document
BuildNodes ==
    /\ out.status = "idle"
    /\ LET r == GetNodesFromDocument([call.document EXCEPT !.metadata = docMetadata],
                                     call.text_splitter, call.chunks,
                                     call.include_metadata, call.include_prev_next_rel,
                                     call.node_keeps_dict)
       IN  /\ out' = [op |-> "build", status |-> r.status, err |-> r.err,
                      nodes |-> r.nodes, text_splits |-> r.text_splits]
           /\ docMetadata' = r.metadata
    /\ UNCHANGED call
    /\ UNCHANGED qvars

NNext == ExtractSplits \/ BuildNodes

NSpec == NInit /\ [][NNext]_vars

(* ===================== properties of the query engine ================== *)
Finished(i) == frame[i].status \in {"returned", "raised"}
Self(i) == pipelines[frame[i].pipe]
IsEvent(e) == e.what \in {"start", "end"}
Events(i) == SelectSeq(trace[i], IsEvent)
Shape(t) == [k \in 1..Len(t) |-> <<t[k].what, t[k].kind>>]
FullShape ==
    << <<"start", "QUERY">>, <<"start", "RETRIEVE">>,
       <<"end", "RETRIEVE">>, <<"end", "QUERY">> >>
IsPrefix(a, b) == Len(a) <= Len(b) /\ SubSeq(b, 1, Len(a)) = a
Positions(t, what) == {k \in 1..Len(t) : t[k].what = what}
PositionsOf(t, what, kind) == {k \in 1..Len(t) : t[k].what = what /\ t[k].kind = kind}

\* the chain as a left fold, written independently of the engine's loop
RECURSIVE FoldChain(_, _, _)
FoldChain(chain, nodes, q) ==
    IF chain = <<>> THEN nodes
    ELSE FoldChain(Tail(chain), PostprocessNodes(Head(chain), nodes, q), q)

ExpectedNodes(i) ==
    FoldChain(Self(i).chain, RetrieverNodes(Self(i).retriever, frame[i].q), frame[i].q)
ExpectedResponse(i) == Synthesize(Self(i).synth, frame[i].q, ExpectedNodes(i))

\* C1: a query that returns emitted exactly QUERY start (query string),
\* RETRIEVE start (no payload), RETRIEVE end (postprocessed nodes), QUERY end
\* (the Response), in this order, and called the synthesizer between the
\* RETRIEVE end and the QUERY end.
C1_FourEventsInOrder ==
    \A i \in Invs :
        (frame[i].op = "query" /\ frame[i].status = "returned") =>
            LET ev == Events(i)
                t == trace[i]
            IN  /\ Shape(ev) = FullShape
                /\ ev[1].payload = QueryStrPayload(frame[i].q)
                /\ ev[2].payload = NoPayload
                /\ ev[3].payload = NodesPayload(ExpectedNodes(i))
                /\ ev[4].payload = ResponsePayload(ExpectedResponse(i))
                /\ Cardinality(Positions(t, "synthesizer")) = 1
                /\ \A ks \in Positions(t, "synthesizer") :
                      /\ \A ke \in PositionsOf(t, "end", "RETRIEVE") : ke < ks
                      /\ \A ke \in PositionsOf(t, "end", "QUERY") : ks < ke

C1_Witness ==
    \E i, j \in Invs :
        /\ frame[i].op = "query" /\ frame[i].status = "returned" /\ frame[i].mode = "sync"
        /\ frame[j].op = "query" /\ frame[j].status = "returned" /\ frame[j].mode = "async"
        /\ Len(Self(i).chain) = 2

\* event ids replaced by the position of the start event that obtained them
StartOf(t, id) ==
    IF \E k \in 1..Len(t) : t[k].what = "start" /\ t[k].id = id
    THEN CHOOSE k \in 1..Len(t) : t[k].what = "start" /\ t[k].id = id
    ELSE 0 - 1
Paired(t) == [k \in 1..Len(t) |-> [t[k] EXCEPT !.id = StartOf(t, t[k].id)]]
Outcome(i) ==
    [status |-> frame[i].status, err |-> frame[i].err, response |-> frame[i].ret_response]

\* C2: a blocking and a suspendable query on the same engine for the same
\* query end the same way (same Response or same failure) and emitted the
\* same events: kinds, payloads and start/end pairing of the ids.
C2_SyncAsyncEquivalent ==
    \A i, j \in Invs :
        ( /\ frame[i].op = "query" /\ frame[j].op = "query"
          /\ frame[i].mode = "sync" /\ frame[j].mode = "async"
          /\ Finished(i) /\ Finished(j)
          /\ Self(i) = Self(j) /\ frame[i].q = frame[j].q )
        => /\ Outcome(i) = Outcome(j)
           /\ Paired(Events(i)) = Paired(Events(j))

C2_Witness ==
    \E i, j \in Invs :
        /\ frame[i].op = "query" /\ frame[j].op = "query"
        /\ frame[i].mode = "sync" /\ frame[j].mode = "async"
        /\ frame[i].status = "returned" /\ frame[j].status = "returned"
        /\ frame[i].pipe = frame[j].pipe /\ frame[i].q = frame[j].q
        /\ Self(i).chain # <<>>

\* what the collaborators of this behaviour do to a query on engine `self`
FirstFailure(self) ==
    IF fault \in {"start_QUERY", "start_RETRIEVE"} THEN "SinkError"
    ELSE IF fault = "retriever" THEN "RetrieverError"
    ELSE IF \E k \in 1..Len(self.chain) : self.chain[k] = "failing" THEN "PostprocessorError"
    ELSE IF fault = "end_RETRIEVE" THEN "SinkError"
    ELSE IF fault = "synthesizer" THEN "SynthesizerError"
    ELSE IF fault = "end_QUERY" THEN "SinkError"
    ELSE NoStr

\* C3: a query interrupted by a failure ends by raising that very failure,
\* returns no Response, and its events are the ones emitted before the
\* failure and nothing else: retriever/postprocessor failure leaves exactly
\* QUERY start and RETRIEVE start; synthesizer failure leaves those plus
\* RETRIEVE end; QUERY end is never emitted.
C3_FailurePropagates ==
    \A i \in Invs :
        (frame[i].op = "query" /\ Finished(i)) =>
            LET sh == Shape(Events(i))
            IN  /\ frame[i].err = FirstFailure(Self(i))
                /\ (frame[i].status = "raised") = (FirstFailure(Self(i)) # NoStr)
                /\ frame[i].status = "raised" =>
                      /\ frame[i].ret_response = NoResponse
                      /\ IsPrefix(sh, FullShape)
                      /\ PositionsOf(trace[i], "end", "QUERY") = {}
                /\ frame[i].err \in {"RetrieverError", "PostprocessorError"} =>
                      sh = SubSeq(FullShape, 1, 2)
                /\ frame[i].err = "SynthesizerError" =>
                      sh = SubSeq(FullShape, 1, 3)

C3_Witness ==
    \E i, j \in Invs :
        /\ frame[i].op = "query" /\ frame[i].mode = "sync"
        /\ frame[j].op = "query" /\ frame[j].mode = "async"
        /\ frame[i].err = "SynthesizerError" /\ frame[j].err = "SynthesizerError"
        /\ Self(i).chain # <<>>

\* C4: every end event carries the id the callback manager returned for the
\* start event of the same kind in the same invocation, that id was handed
\* out once, and no other invocation obtained it.
C4_TokensRequestScoped ==
    \A i \in Invs :
        \A k \in Positions(trace[i], "end") :
            LET e == trace[i][k]
            IN  /\ \E s \in 1..(k - 1) :
                      /\ trace[i][s].what = "start"
                      /\ trace[i][s].kind = e.kind
                      /\ trace[i][s].id = e.id
                /\ \A j \in Invs : \A s \in 1..Len(trace[j]) :
                      (trace[j][s].what = "start" /\ trace[j][s].id = e.id)
                          => (j = i /\ trace[j][s].kind = e.kind)

C4_Witness ==
    \E i, j \in Invs :
        /\ i < j
        /\ frame[i].op = "query" /\ frame[j].op = "query"
        /\ frame[i].pipe = frame[j].pipe
        /\ frame[i].status = "await_synthesize"
        /\ frame[j].status = "returned"

\* C5: standalone retrieve returns the retriever's output folded through the
\* whole chain, and so do the RETRIEVE end payload of a query and the nodes
\* the query hands to the synthesizer.
C5_RetrieveSameAsQueryPhase ==
    \A i \in Invs :
        /\ (frame[i].op = "retrieve" /\ frame[i].status = "returned") =>
              frame[i].ret_nodes = ExpectedNodes(i)
        /\ frame[i].op = "query" =>
              /\ \A k \in PositionsOf(trace[i], "end", "RETRIEVE") :
                    trace[i][k].payload = NodesPayload(ExpectedNodes(i))
              /\ \A k \in Positions(trace[i], "synthesizer") :
                    trace[i][k].payload.nodes = ExpectedNodes(i)
        /\ \A j \in Invs :
              ( /\ frame[i].op = "retrieve" /\ frame[i].status = "returned"
                /\ frame[j].op = "query" /\ Self(i) = Self(j) /\ frame[i].q = frame[j].q )
              => \A k \in PositionsOf(trace[j], "end", "RETRIEVE") :
                    trace[j][k].payload.nodes = frame[i].ret_nodes

C5_Witness ==
    \E i, j \in Invs :
        /\ frame[i].op = "retrieve" /\ frame[i].status = "returned"
        /\ frame[j].op = "query" /\ frame[j].status = "returned"
        /\ frame[i].pipe = frame[j].pipe /\ frame[i].q = frame[j].q
        /\ Self(i).chain = <<"cutoff", "rerank">>
        /\ Len(frame[i].ret_nodes) = 2

StartsIn(i) == Cardinality(Positions(trace[i], "start"))
RECURSIVE SumStarts(_)
SumStarts(n) == IF n = 0 THEN 0 ELSE StartsIn(n) + SumStarts(n - 1)

\* C6: standalone retrieve, blocking or suspendable, emits no event and never
\* calls the synthesizer; every id the callback manager handed out went to a
\* query.
C6_RetrieveEmitsNothing ==
    /\ \A i \in Invs :
          frame[i].op = "retrieve" =>
              \A k \in 1..Len(trace[i]) :
                  trace[i][k].what \in {"retriever", "postprocessor"}
    /\ nextEventId = 1 + SumStarts(MaxInv)
    /\ \A i \in Invs : frame[i].op # "query" => StartsIn(i) = 0

C6_Witness ==
    \E i, j \in Invs :
        /\ frame[i].op = "retrieve" /\ frame[i].mode = "sync" /\ frame[i].status = "returned"
        /\ frame[j].op = "retrieve" /\ frame[j].mode = "async" /\ frame[j].status = "returned"
        /\ Self(i).chain # <<>>

\* C7: with_retriever adds an engine with the given retriever and the
\* original's synthesizer, chain and callback manager, and changes no
\* existing engine; whatever an invocation calls is what its engine holds.
C7_WithRetrieverRebinds ==
    /\ [][pipelines' # pipelines =>
            /\ Len(pipelines') = Len(pipelines) + 1
            /\ SubSeq(pipelines', 1, Len(pipelines)) = pipelines
            /\ \E p \in 1..Len(pipelines), r \in Retrievers :
                  LET new == pipelines'[Len(pipelines')]
                  IN  /\ new.retriever = r
                      /\ new.synth = pipelines[p].synth
                      /\ new.chain = pipelines[p].chain
                      /\ new.cm = pipelines[p].cm]_vars
    /\ [](\A i \in Invs : \A k \in 1..Len(trace[i]) :
            /\ trace[i][k].what = "retriever" => trace[i][k].kind = Self(i).retriever
            /\ trace[i][k].what = "synthesizer" => trace[i][k].kind = Self(i).synth)

C7_Witness ==
    /\ Len(pipelines) = 2
    /\ pipelines[1].retriever # pipelines[2].retriever
    /\ pipelines[1].chain # <<>>
    /\ \E i, j \in Invs :
          /\ frame[i].pipe = 1 /\ frame[j].pipe = 2
          /\ frame[i].op = "query" /\ frame[i].status = "returned"
          /\ frame[j].op = "query" /\ frame[j].status = "returned"

(* ====================== properties of the node parser ================== *)
Built == out.op = "build" /\ out.status = "returned"
KnownDocument == call.document.type \in {"Document", "ImageDocument"}
Related(node, kind) == {item[2] : item \in {it \in node.relationships : it[1] = kind}}

\* C8: for a plain or image document build_nodes returns one node per chunk
\* of the splitter's output, node i carrying the text of chunk i.
C8_OneNodePerChunkInOrder ==
    (out.op = "build" /\ KnownDocument) =>
        /\ out.status = "returned"
        /\ Len(out.nodes) = Len(call.chunks)
        /\ \A i \in 1..Len(call.chunks) : out.nodes[i].text = call.chunks[i].text

C8_Witness ==
    /\ Built
    /\ call.document.type = "ImageDocument"
    /\ Len(out.nodes) = 3
    /\ out.nodes[1].text # out.nodes[2].text
    /\ out.nodes[2].text # out.nodes[3].text

\* C9: with include_prev_next_rel the first node has no PREVIOUS, the last no
\* NEXT, every other PREVIOUS/NEXT is there and references the neighbour;
\* without it no node has PREVIOUS or NEXT.
C9_SiblingLinks ==
    Built =>
        LET n == Len(out.nodes)
        IN  \A i \in 1..n :
               /\ Related(out.nodes[i], "PREVIOUS") =
                     IF call.include_prev_next_rel /\ i > 1
                     THEN {AsRelatedNodeInfo(out.nodes[i - 1])} ELSE {}
               /\ Related(out.nodes[i], "NEXT") =
                     IF call.include_prev_next_rel /\ i < n
                     THEN {AsRelatedNodeInfo(out.nodes[i + 1])} ELSE {}
               /\ \A j \in 1..n : out.nodes[i].id = out.nodes[j].id => i = j

C9_Witness ==
    /\ Built
    /\ call.include_prev_next_rel
    /\ Len(out.nodes) = 3
    /\ Related(out.nodes[2], "PREVIOUS") # {}
    /\ Related(out.nodes[2], "NEXT") # {}

\* C10: every returned node has exactly one SOURCE relationship, and it
\* references the document of the call, with or without sibling links.
C10_OneSourcePerNode ==
    Built =>
        \A i \in 1..Len(out.nodes) :
            /\ Cardinality({it \in out.nodes[i].relationships : it[1] = "SOURCE"}) = 1
            /\ Related(out.nodes[i], "SOURCE") =
                  {[node_id |-> call.document.id, node_type |-> call.document.type]}

C10_Witness ==
    /\ Built
    /\ call.include_prev_next_rel
    /\ Len(out.nodes) = 3
    /\ call.document.type = "ImageDocument"
    /\ Cardinality(out.nodes[2].relationships) = 3

\* C11: for a document that is neither plain nor image, build_nodes fails
\* with the unknown-document-type error and returns no node list, whatever
\* the splitter returned, zero chunks included.
C11_UnknownTypeAlwaysFails ==
    (out.op = "build" /\ ~KnownDocument) =>
        /\ out.status = "raised"
        /\ out.err = "ValueError"
        /\ out.nodes = <<>>

\* C12: the document is read-only to chunking: once extract or build_nodes
\* has returned or failed, the document's metadata equals, key for key, the
\* metadata it had before the call.
C12_DocumentReadOnly ==
    out.status # "idle" => docMetadata = call.document.metadata

SplitMetadata(text_split) ==
    IF text_split.metadata = Nothing THEN EmptyDict ELSE text_split.metadata[1]

\* C13: with include_metadata the metadata of node i is the document's
\* metadata as it was at the call overlaid with the metadata of split i only
\* (split keys overwrite); no key of another split appears in node i.
C13_NodeMetadataFromOwnSplit ==
    (Built /\ call.include_metadata) =>
        \A i \in 1..Len(out.nodes) :
            out.nodes[i].metadata =
                Update(call.document.metadata, SplitMetadata(out.text_splits[i]))

Extracted == out.op = "extract" /\ out.status = "returned"
ChunkMetadata(text_chunk) ==
    IF text_chunk.metadata = Nothing THEN EmptyDict ELSE text_chunk.metadata[1]
\* the split has the document's value for every document key and keeps the
\* keys only the chunk carries
DocumentWins(text_split, text_chunk, document_metadata) ==
    LET md == SplitMetadata(text_split)
        own == ChunkMetadata(text_chunk)
    IN  /\ \A k \in Keys(document_metadata) :
              k \in Keys(md) /\ md[k] = document_metadata[k]
        /\ \A k \in Keys(own) \ Keys(document_metadata) :
              k \in Keys(md) /\ md[k] = own[k]

\* C14 as stated: in both extractor paths, with include_metadata and a
\* document that carries metadata, every returned TextSplit has the
\* document's value for every document key and keeps its own other keys.
C14_BothPathsMerge ==
    (Extracted /\ call.include_metadata /\ call.document.metadata # EmptyDict) =>
        /\ Len(out.text_splits) = Len(call.chunks)
        /\ \A i \in 1..Len(out.text_splits) :
              DocumentWins(out.text_splits[i], call.chunks[i], call.document.metadata)

\* C14 amended: the merge (document overwrites, split-only keys kept) is done
\* in the plain-splitter path only; the overlap-aware path returns the
\* splitter's TextSplits with the metadata the splitter gave them.
C14_PlainPathMerges ==
    Extracted =>
        /\ Len(out.text_splits) = Len(call.chunks)
        /\ \A i \in 1..Len(out.text_splits) :
              IF call.text_splitter = "TokenTextSplitter"
              THEN out.text_splits[i].metadata = call.chunks[i].metadata
              ELSE IF call.include_metadata /\ call.document.metadata # EmptyDict
              THEN /\ DocumentWins(out.text_splits[i], call.chunks[i], call.document.metadata)
                   /\ Keys(SplitMetadata(out.text_splits[i])) =
                         Keys(call.document.metadata) \cup Keys(ChunkMetadata(call.chunks[i]))
              ELSE out.text_splits[i].metadata = call.chunks[i].metadata

C14_Witness ==
    /\ Extracted
    /\ call.text_splitter = "TextSplitter"
    /\ call.include_metadata
    /\ call.document.metadata # EmptyDict
    /\ \E i \in 1..Len(call.chunks) :
          /\ "a" \in Keys(ChunkMetadata(call.chunks[i]))
          /\ ChunkMetadata(call.chunks[i])["a"] # call.document.metadata["a"]
          /\ SplitMetadata(out.text_splits[i])["a"] = call.document.metadata["a"]
    /\ \E j \in 1..Len(call.chunks) :
          /\ "b" \in Keys(ChunkMetadata(call.chunks[j]))
          /\ "b" \in Keys(SplitMetadata(out.text_splits[j]))

\* the cursor before split i: the sum over the earlier splits of len + 1
RECURSIVE CursorBefore(_, _)
CursorBefore(text_splits, i) ==
    IF i = 1 THEN 0
    ELSE CursorBefore(text_splits, i - 1) + Len(text_splits[i - 1].text_chunk) + 1

\* C15: the cursor starts at 0 and advances by len(chunk) + 1 after every
\* split, with or without an overlap count; a node whose split has overlap k
\* starts at the cursor minus k and spans len(chunk); a node whose split has
\* no overlap count has both offsets null.
C15_OffsetArithmetic ==
    Built =>
        /\ Len(out.nodes) = Len(out.text_splits)
        /\ \A i \in 1..Len(out.nodes) :
              LET text_split == out.text_splits[i]
                  node == out.nodes[i]
              IN  IF text_split.num_char_overlap # Nothing
                  THEN /\ node.start_char_idx =
                             Some(CursorBefore(out.text_splits, i)
                                      - text_split.num_char_overlap[1])
                       /\ node.end_char_idx # Nothing
                       /\ node.end_char_idx[1] - node.start_char_idx[1] =
                             Len(text_split.text_chunk)
                  ELSE node.start_char_idx = Nothing /\ node.end_char_idx = Nothing

C15_Witness ==
    /\ Built
    /\ Len(out.nodes) = 3
    /\ out.text_splits[1].num_char_overlap = Some(0)
    /\ out.text_splits[2].num_char_overlap = Nothing
    /\ out.text_splits[3].num_char_overlap = Some(1)
    /\ out.nodes[2].start_char_idx = Nothing
    /\ out.nodes[3].start_char_idx = Some(4)
    /\ out.nodes[3].end_char_idx = Some(6)

HasOffsets(node) == node.start_char_idx # Nothing /\ node.end_char_idx # Nothing

IsPostprocessorCall(e) == e.what = "postprocessor"
PostprocessorCalls(i) == SelectSeq(trace[i], IsPostprocessorCall)
RetrievePhaseDone(i) ==
    frame[i].status = "returned" \/ Positions(trace[i], "synthesizer") # {}
RetrievedNodes(i) ==
    IF frame[i].op = "retrieve" THEN frame[i].ret_nodes ELSE frame[i].ret_response.nodes

\* C17: the chain is a left fold: stage k is called after stage k-1, on the
\* output of stage k-1 (the retriever's nodes for k = 1) and the query of the
\* invocation; a retrieve that completes has called every stage exactly
\* once and yields the last stage's output, so [P1, P2] yields P2 applied to
\* P1's output and the empty chain yields the retriever's nodes unchanged.
C17_ChainIsLeftFold ==
    \A i \in Invs :
        frame[i].status # "idle" =>
            LET chain == Self(i).chain
                calls == PostprocessorCalls(i)
                q == frame[i].q
                retrieved == RetrieverNodes(Self(i).retriever, q)
            IN  /\ Len(calls) <= Len(chain)
                /\ \A k \in 1..Len(calls) :
                      /\ calls[k].kind = chain[k]
                      /\ calls[k].payload.query_str = q
                      /\ calls[k].payload.nodes =
                            IF k = 1 THEN retrieved
                            ELSE PostprocessNodes(chain[k - 1], calls[k - 1].payload.nodes, q)
                /\ RetrievePhaseDone(i) => Len(calls) = Len(chain)
                /\ frame[i].status = "returned" =>
                      /\ chain = <<>> => RetrievedNodes(i) = retrieved
                      /\ Len(chain) = 1 =>
                            RetrievedNodes(i) = PostprocessNodes(chain[1], retrieved, q)
                      /\ Len(chain) = 2 =>
                            RetrievedNodes(i) =
                                PostprocessNodes(chain[2],
                                    PostprocessNodes(chain[1], retrieved, q), q)
                      /\ RetrievedNodes(i) = FoldChain(chain, retrieved, q)

C17_Witness ==
    \E i, j \in Invs :
        /\ frame[i].op = "retrieve" /\ frame[i].status = "returned"
        /\ frame[j].op = "query" /\ frame[j].mode = "async" /\ frame[j].status = "returned"
        /\ Self(i).chain = <<"cutoff", "rerank">>
        /\ Len(PostprocessorCalls(i)) = 2 /\ Len(PostprocessorCalls(j)) = 2
        /\ frame[i].ret_nodes # RetrieverNodes(Self(i).retriever, frame[i].q)
        /\ frame[i].ret_nodes # FoldChain(<<"rerank", "cutoff">>,
                                          RetrieverNodes(Self(i).retriever, frame[i].q),
                                          frame[i].q)

\* the same call with include_prev_next_rel set to flag
BuiltWith(flag) ==
    GetNodesFromDocument(call.document, call.text_splitter, call.chunks,
                         call.include_metadata, flag, call.node_keeps_dict)
WithoutSiblings(node) ==
    [node EXCEPT !.relationships =
        {item \in @ : item[1] \notin {"PREVIOUS", "NEXT"}}]

\* C18: sibling linking is a pure post-pass: the nodes of this build and the
\* nodes of the same build with include_prev_next_rel flipped agree in count,
\* order, text, offsets, metadata and SOURCE, and differ at most in their
\* PREVIOUS/NEXT entries, which only the linked build has.
C18_LinkingIsPurePostPass ==
    out.op = "build" =>
        LET other == BuiltWith(~call.include_prev_next_rel)
            linked == IF call.include_prev_next_rel THEN out.nodes ELSE other.nodes
            plain == IF call.include_prev_next_rel THEN other.nodes ELSE out.nodes
        IN  /\ out.status = other.status /\ out.err = other.err
            /\ docMetadata = other.metadata
            /\ Len(linked) = Len(plain)
            /\ \A i \in 1..Len(plain) :
                  /\ WithoutSiblings(linked[i]) = plain[i]
                  /\ linked[i].text = plain[i].text
                  /\ linked[i].start_char_idx = plain[i].start_char_idx
                  /\ linked[i].end_char_idx = plain[i].end_char_idx
                  /\ linked[i].metadata = plain[i].metadata
                  /\ Related(linked[i], "SOURCE") = Related(plain[i], "SOURCE")
                  /\ Related(plain[i], "PREVIOUS") = {}
                  /\ Related(plain[i], "NEXT") = {}

C18_Witness ==
    /\ Built
    /\ call.include_prev_next_rel
    /\ call.include_metadata
    /\ Len(out.nodes) = 3
    /\ out.nodes # BuiltWith(FALSE).nodes
    /\ HasOffsets(out.nodes[2])
    /\ out.nodes[2].metadata # EmptyDict
    /\ Related(out.nodes[2], "NEXT") # {}

(* ======================= termination of a query ======================== *)
\* every collaborator of invocation i returns: no injected failure, no
\* failing stage in the chain
CollaboratorsReturn(i) ==
    /\ fault = "none"
    /\ \A k \in 1..Len(Self(i).chain) : Self(i).chain[k] # "failing"
QueryStarted(i) == frame[i].op = "query" /\ frame[i].status # "idle"
\* the terminal state: the QUERY end event is the last thing recorded, it
\* closes the QUERY start with the returned Response, and the Response is
\* what the one synthesizer call produced from what it was given
QueryEnded(i) ==
    LET t == trace[i]
    IN  /\ frame[i].status = "returned"
        /\ t # <<>>
        /\ t[Len(t)] = Entry("end", "QUERY", ResponsePayload(frame[i].ret_response),
                             frame[i].query_id)
        /\ \E k \in PositionsOf(t, "start", "QUERY") : t[k].id = frame[i].query_id
        /\ Cardinality(Positions(t, "retriever")) = 1
        /\ Cardinality(Positions(t, "synthesizer")) = 1
        /\ \A k \in Positions(t, "synthesizer") :
              frame[i].ret_response =
                  Synthesize(t[k].kind, t[k].payload.query_str, t[k].payload.nodes)

\* C19: a query, blocking or suspendable, whose retriever, postprocessors,
\* synthesizer and event sink all return eventually emits the QUERY end
\* event and returns the Response the synthesizer produced, after one
\* retriever call and one synthesizer call.
C19_QueryReachesQueryEnded ==
    \A i \in Invs : (QueryStarted(i) /\ CollaboratorsReturn(i)) ~> QueryEnded(i)

C19_Witness ==
    \E i, j \in Invs :
        /\ frame[i].mode = "async" /\ QueryStarted(i) /\ CollaboratorsReturn(i)
        /\ QueryEnded(i)
        /\ frame[j].mode = "sync" /\ QueryStarted(j) /\ QueryEnded(j)
        /\ Self(i).chain # <<>>

====
